---- MODULE Spec2Model ----
(***************************************************************************)
(* A model of main.py, the GitHub management script: the retrying request  *)
(* executor, the four paginated cleanup operations and the bulk visibility *)
(* change, run against a server that holds one collection.                 *)
(*                                                                         *)
(* One behaviour is one call: a direct call of make_request_with_retries   *)
(* (op = "exec") or of calculate_cutoff_date (op = "cutoff"), or one run   *)
(* of the program from main (op = "main", then the function it calls).     *)
(* The operations are sequential; a step is everything the code does       *)
(* between two points where the server's answer decides how it goes on     *)
(* (fetching one page, handling one item of the page).                     *)
(***************************************************************************)
EXTENDS Integers, Sequences, FiniteSets

VARIABLES
    args,          \* the parsed command line (NoArgs in a direct call of a helper)
    cut,           \* op = "cutoff": the arguments of calculate_cutoff_date and its result
    op,            \* the function that runs
    pc,            \* its position: "start", "fetch", "loop", "done"
    exit,          \* how it ended: "" while running, else the return/break taken
    exec,          \* op = "exec": the arguments of the call and its result
    honoursBody,   \* server: does it read paging parameters from a GET body
    coll,          \* server: the collection (releases, tags, branches, issues, repos)
    limit,         \* the limit argument: <<>> is None, <<n>> is the integer n
    cutoff_date,   \* delete_releases: cutoff_date
    page,          \* params["page"]
    listReq,       \* the last listing request sent
    listResp,      \* the status of the answer to the last listing call (0: none yet)
    items,         \* the page being iterated (releases, tags, branches, issues, repos)
    idx,           \* position of the for loop in items
    deleted_count, \* deleted_count / closed_count
    calls,         \* the number of mutation calls (delete, patch) made
    log            \* the mutation calls made: {[item, ok]}, ok = taken as a success

vars == <<args, cut, op, pc, exit, exec, honoursBody, coll, limit, cutoff_date,
          page, listReq, listResp, items, idx, deleted_count, calls, log>>

----------------------------------------------------------------------------
(* Bounds of the model *)

\* The page size. The code asks for pages of 50 (params["per_page"]); the
\* model scales the page down so that collections of several pages can be
\* enumerated. Nothing in the code depends on the value other than through
\* len(releases) < params["per_page"].
per_page == 2

\* The page size the server uses when a request carries no paging parameters.
ServerDefaultPerPage == 2

MaxReleases == 3     \* releases in the repository
MaxTags == 4         \* tags in the repository (two full pages)
MaxBranches == 3     \* branches in the repository
MaxIssues == 3       \* issues in the repository
MaxRepos == 3        \* repositories of the organization
MaxTime == 2         \* timestamps are 0..MaxTime
MaxLimit == 2        \* --limit is drawn from -1..MaxLimit, or absent
MaxPage == 4         \* params["page"] counts up to MaxPage and stays there
MaxCalls == 5        \* calls counts up to MaxCalls and stays there
MaxAmount == 2       \* the <int> of a time frame is drawn from 0..MaxAmount

----------------------------------------------------------------------------
(* Constants of the program *)

MAX_RETRIES == 3
RETRY_DELAY == 2
RATE_LIMIT_SLEEP == 60
EXCLUDED_BRANCHES == {"main", "master"}

\* The branches of the method dispatch, lines 19-26.
SupportedMethodsNoPatch == {"GET", "DELETE"}
SupportedMethods == {"GET", "DELETE", "PATCH"}

\* The status codes the server answers with.
Statuses == {200, 204, 403, 500}

\* What the server would answer to the 1st, 2nd, ... request of one call.
RespSeqs == [1..MAX_RETRIES -> Statuses]

Min(a, b) == IF a < b THEN a ELSE b

----------------------------------------------------------------------------
(* make_request_with_retries *)

NoResponse == [status |-> 0, n |-> 0]

\* A response object: its status and which request of the call it answers.
Response(resps, n) == [status |-> resps[n], n |-> n]

\* range(retries): the attempts the for loop makes.
LoopBoundOneMore(retries) == Min(retries + 1, MAX_RETRIES)
LoopBound(retries) == retries

\* `continue` on a 403: the for loop goes on with the next attempt.
After403Break(attempt) == MAX_RETRIES
After403(attempt) == attempt + 1

\* response.status_code in (200, 204)
IsSuccessOnly200(status) == status = 200
IsSuccess(status) == status \in {200, 204}

\* The state of a call: attempt is the loop variable, response the last
\* response bound, requests/slept/failures what it has done so far.
ExecStart ==
    [attempt |-> 0, response |-> NoResponse, requests |-> 0, slept |-> 0,
     failures |-> 0, raised |-> "", returned |-> FALSE]

RECURSIVE retry_loop(_, _, _, _)
retry_loop(method, resps, retries, st) ==
    IF st.attempt >= LoopBound(retries)
    THEN \* line 37: return response (unbound when the loop never ran)
         IF st.response = NoResponse
         THEN [st EXCEPT !.raised = "UnboundLocalError"]
         ELSE [st EXCEPT !.returned = TRUE]
    ELSE IF method \notin SupportedMethods
    THEN [st EXCEPT !.raised = "ValueError"]
    ELSE LET response == Response(resps, st.requests + 1)
             sent == [st EXCEPT !.response = response, !.requests = @ + 1]
         IN  IF response.status = 403
             THEN retry_loop(method, resps, retries,
                      [sent EXCEPT !.slept = @ + RATE_LIMIT_SLEEP,
                                   !.attempt = After403(@)])
             ELSE IF IsSuccess(response.status)
             THEN [sent EXCEPT !.returned = TRUE]
             ELSE retry_loop(method, resps, retries,
                      [sent EXCEPT !.slept = @ + RETRY_DELAY,
                                   !.failures = @ + 1,
                                   !.attempt = @ + 1])

make_request_with_retries(method, resps, retries) ==
    retry_loop(method, resps, retries, ExecStart)

NoCall == [method |-> "", resps |-> <<>>, retries |-> 0, result |-> ExecStart]

\* The methods and budgets a direct call is made with. No caller in main.py
\* passes retries; a direct call draws a positive budget up to the default.
CallMethods == SupportedMethods \cup {"POST"}
CallRetries == 1..MAX_RETRIES

\* A direct call of make_request_with_retries.
exec_call ==
    /\ op = "exec" /\ pc = "start"
    /\ exec' = [exec EXCEPT !.result =
                    make_request_with_retries(exec.method, exec.resps, exec.retries)]
    /\ pc' = "done"
    /\ exit' = IF exec'.result.raised # "" THEN "raised" ELSE "returned"
    /\ UNCHANGED <<args, cut, op, listResp, honoursBody, coll, limit, cutoff_date, page, listReq,
                   items, idx, deleted_count, calls, log>>

----------------------------------------------------------------------------
(* The server *)

\* Request parameters (a query string or a JSON body). state = "" and 0 stand
\* for a key that is not sent; NoParams is no parameters at all.
NoParams == [state |-> "", per_page |-> 0, page |-> 0]
NoRequest == [method |-> "", query |-> NoParams, json |-> NoParams]

\* The paging the server applies to a listing request: the query parameters
\* when there are any, the parameters of the body when it reads bodies of GET
\* requests, else its defaults.
Paging(req) ==
    IF req.query # NoParams THEN req.query
    ELSE IF honoursBody /\ req.json # NoParams THEN req.json
    ELSE [state |-> "", per_page |-> ServerDefaultPerPage, page |-> 1]

PageOf(c, p, size) == SubSeq(c, (p - 1) * size + 1, Min(p * size, Len(c)))

IsOpen(issue) == issue.state = "open"

\* The items a listing is taken from: the issues endpoint lists open issues
\* (the default of its state filter), the other endpoints everything.
Listed(c) == IF op = "issues" THEN SelectSeq(c, IsOpen) ELSE c

\* The JSON of a 200 answer to a listing request.
ServerListing(c, req) ==
    LET p == Paging(req) IN PageOf(Listed(c), p.page, p.per_page)

\* The collection after the server deleted item.
Remove(c, item) ==
    IF \E k \in 1..Len(c) : c[k] = item
    THEN LET k == CHOOSE k \in 1..Len(c) : c[k] = item
         IN  SubSeq(c, 1, k - 1) \o SubSeq(c, k + 1, Len(c))
    ELSE c

\* The collection after the server closed issue.
Close(c, issue) ==
    [k \in 1..Len(c) |-> IF c[k] = issue THEN [c[k] EXCEPT !.state = "closed"] ELSE c[k]]

----------------------------------------------------------------------------
(* Arguments *)

\* `if limit and deleted_count >= limit`
Truthy(lim) == lim # <<>> /\ lim[1] # 0
LimitReached(lim, count) == Truthy(lim) /\ count >= lim[1]

Limits == {<<>>} \cup {<<n>> : n \in -1..MaxLimit}

\* response.status_code != 200 after a listing call
ListingFailedBut403(status) == status \notin {200, 403}
ListingFailed(status) == status # 200

\* delete_response.status_code == 204 / patch_response.status_code == 200
AcceptedAny(status, code) == TRUE
AcceptedAny2xx(status, code) == status \in {200, 204}
Accepted(status, code) == status = code

\* params["page"] += 1. Pages from MaxPage on are one page to the model:
\* no collection drawn reaches that far, so they are all empty to a server
\* that reads the page number.
NextPage(p) == IF p < MaxPage THEN p + 1 ELSE p

\* One more mutation call, counted up to MaxCalls.
Bump(n) == IF n < MaxCalls THEN n + 1 ELSE n

\* The final total an operation that has ended printed: the print after the
\* while loop (lines 108, 142, 177, 211), reached when the loop was left
\* through break. <<>>: no total printed, the operation returned from inside
\* the loop (limit reached, or a failed listing of lines 119-121, 153-155,
\* 188-190).
Reported ==
    IF pc = "done" /\ exit \in {"empty", "short"} THEN <<deleted_count>>
    ELSE IF pc = "done" /\ exit = "list_failed" /\ op = "releases" THEN <<deleted_count>>
    ELSE <<>>


----------------------------------------------------------------------------
(* calculate_cutoff_date *)

\* datetime.utcnow(), to the hour.
Nows ==
    {[year |-> 2024, month |-> 3, day |-> 31, hour |-> 0],
     [year |-> 2023, month |-> 3, day |-> 30, hour |-> 23],
     [year |-> 2024, month |-> 3, day |-> 1, hour |-> 1],
     [year |-> 2024, month |-> 1, day |-> 1, hour |-> 0],
     [year |-> 2024, month |-> 12, day |-> 31, hour |-> 12],
     [year |-> 2023, month |-> 7, day |-> 15, hour |-> 6]}

\* A time-frame argument. prefix tells what time_frame_gt[:-1] is: "int"
\* (int() reads it, as n), "text" (int() raises), "empty" (nothing before
\* the last character); last is the last character, "x" standing for any
\* character other than m, d, h, and "" for the empty string. prefix = "none"
\* is the argument left out (None).
NoTimeFrame == [prefix |-> "none", n |-> 0, last |-> ""]
TimeFrames ==
    {[prefix |-> "int", n |-> n, last |-> u] : n \in 0..MaxAmount, u \in {"m", "d", "h", "x"}}
    \cup {[prefix |-> k, n |-> 0, last |-> u] : k \in {"text", "empty"}, u \in {"m", "d", "h", "x"}}
    \cup {[prefix |-> "empty", n |-> 0, last |-> ""]}

IsLeap(y) == y % 4 = 0 /\ (y % 100 # 0 \/ y % 400 = 0)
DaysIn(y, m) ==
    IF m = 2 THEN (IF IsLeap(y) THEN 29 ELSE 28)
    ELSE IF m \in {4, 6, 9, 11} THEN 30 ELSE 31

\* now - relativedelta(months=months): the month moves back, the day is cut
\* to the length of the month reached.
MinusMonthsUnclamped(dt, months) ==
    LET total == dt.year * 12 + (dt.month - 1) - months
    IN  [dt EXCEPT !.year = total \div 12, !.month = (total % 12) + 1]
MinusMonths(dt, months) ==
    LET total == dt.year * 12 + (dt.month - 1) - months
        y == total \div 12
        m == (total % 12) + 1
    IN  [dt EXCEPT !.year = y, !.month = m, !.day = Min(dt.day, DaysIn(y, m))]

\* The day before, same time of day.
MinusOneDay(dt) ==
    IF dt.day > 1 THEN [dt EXCEPT !.day = @ - 1]
    ELSE IF dt.month > 1
    THEN [dt EXCEPT !.month = @ - 1, !.day = DaysIn(dt.year, dt.month - 1)]
    ELSE [dt EXCEPT !.year = @ - 1, !.month = 12, !.day = 31]

\* now - timedelta(days=days)
RECURSIVE MinusDays(_, _)
MinusDays(dt, days) == IF days = 0 THEN dt ELSE MinusDays(MinusOneDay(dt), days - 1)

\* now - timedelta(hours=hours)
RECURSIVE MinusHours(_, _)
MinusHours(dt, hours) ==
    IF hours = 0 THEN dt
    ELSE IF dt.hour > 0 THEN MinusHours([dt EXCEPT !.hour = @ - 1], hours - 1)
    ELSE MinusHours([MinusOneDay(dt) EXCEPT !.hour = 23], hours - 1)

\* Lines 39-52. None has no endswith (AttributeError); int() raises
\* ValueError on a prefix that is no integer.
calculate_cutoff_date(now, time_frame_gt) ==
    IF time_frame_gt.prefix = "none"
    THEN [raised |-> "AttributeError", value |-> now]
    ELSE IF time_frame_gt.last \in {"m", "d", "h"}
    THEN IF time_frame_gt.prefix # "int"
         THEN [raised |-> "ValueError", value |-> now]
         ELSE [raised |-> "",
               value |-> IF time_frame_gt.last = "m"
                         THEN MinusMonths(now, time_frame_gt.n)
                         ELSE IF time_frame_gt.last = "d"
                         THEN MinusDays(now, time_frame_gt.n)
                         ELSE MinusHours(now, time_frame_gt.n)]
    ELSE [raised |-> "ValueError", value |-> now]

NoCut == [now |-> [year |-> 0, month |-> 0, day |-> 0, hour |-> 0],
          time_frame |-> NoTimeFrame,
          result |-> [raised |-> "", value |-> [year |-> 0, month |-> 0, day |-> 0, hour |-> 0]]]

\* A direct call of calculate_cutoff_date.
cutoff_call ==
    /\ op = "cutoff" /\ pc = "start"
    /\ cut' = [cut EXCEPT !.result = calculate_cutoff_date(cut.now, cut.time_frame)]
    /\ pc' = "done"
    /\ exit' = IF cut'.result.raised # "" THEN "cutoff_raised" ELSE "returned"
    /\ UNCHANGED <<args, op, exec, honoursBody, coll, limit, cutoff_date, page,
                   listReq, listResp, items, idx, deleted_count, calls, log>>

----------------------------------------------------------------------------
(* delete_releases: listing and delete requests go to the transport         *)
(* directly, one request each, no retry.                                    *)

Times == 0..MaxTime

\* release_date < cutoff_date
IsOlderOrEqual(release) == release.created_at <= cutoff_date
IsOlder(release) == release.created_at < cutoff_date

\* len(releases) < params["per_page"]
IsShortPageNever(releases) == FALSE
IsShortPage(releases) == Len(releases) < per_page

\* Lines 59-65. An exception of calculate_cutoff_date leaves the function;
\* else cutoff_date is the time it returned, a point of Times.
delete_releases_start ==
    /\ op = "releases" /\ pc = "start"
    /\ page' = 1
    /\ deleted_count' = 0
    /\ \E now \in Nows :
        IF calculate_cutoff_date(now, args.time_frame).raised # ""
        THEN pc' = "done" /\ exit' = "cutoff_raised" /\ cutoff_date' = cutoff_date
        ELSE pc' = "fetch" /\ exit' = exit /\ \E c \in Times : cutoff_date' = c
    /\ UNCHANGED <<args, cut, op, listResp, exec, honoursBody, coll, limit,
                   listReq, items, idx, calls, log>>

\* Lines 67-77: one listing request and the two ways out of the loop.
delete_releases_fetch ==
    /\ op = "releases" /\ pc = "fetch" /\ page <= MaxPage
    /\ \E status \in Statuses :
        LET req == [method |-> "GET",
                    query |-> [state |-> "", per_page |-> per_page, page |-> page],
                    json |-> NoParams]
            releases == ServerListing(coll, req)
        IN  /\ listReq' = req
            /\ listResp' = status
            /\ IF ListingFailed(status)
               THEN /\ pc' = "done" /\ exit' = "list_failed"
                    /\ UNCHANGED <<items, idx>>
               ELSE IF releases = <<>>
               THEN /\ pc' = "done" /\ exit' = "empty"
                    /\ items' = releases /\ idx' = 1
               ELSE /\ pc' = "loop" /\ exit' = exit
                    /\ items' = releases /\ idx' = 1
    /\ UNCHANGED <<args, cut, op, exec, honoursBody, coll, limit, cutoff_date, page,
                   deleted_count, calls, log>>

\* Lines 79-98: one release of the page.
delete_releases_item ==
    /\ op = "releases" /\ pc = "loop" /\ idx <= Len(items)
    /\ LET release == items[idx] IN
       IF IsOlder(release)
       THEN \E status \in Statuses :
            /\ calls' = Bump(calls)
            /\ log' = log \cup {[item |-> release, ok |-> Accepted(status, 204)]}
            /\ coll' = IF status = 204 THEN Remove(coll, release) ELSE coll
            /\ IF Accepted(status, 204)
               THEN /\ deleted_count' = deleted_count + 1
                    /\ IF LimitReached(limit, deleted_count')
                       THEN pc' = "done" /\ exit' = "limit" /\ idx' = idx
                       ELSE pc' = pc /\ exit' = exit /\ idx' = idx + 1
               ELSE /\ idx' = idx + 1
                    /\ UNCHANGED <<deleted_count, pc, exit>>
       ELSE /\ idx' = idx + 1
            /\ UNCHANGED <<coll, deleted_count, pc, exit, calls, log>>
    /\ UNCHANGED <<args, cut, op, listResp, exec, honoursBody, limit,
                   cutoff_date, page, listReq, items>>

\* Lines 100-106: after the last release of the page.
delete_releases_next ==
    /\ op = "releases" /\ pc = "loop" /\ idx > Len(items)
    /\ IF IsShortPage(items)
       THEN pc' = "done" /\ exit' = "short" /\ page' = page
       ELSE pc' = "fetch" /\ exit' = exit /\ page' = page + 1
    /\ UNCHANGED <<args, cut, op, listResp, exec, honoursBody, coll, limit, cutoff_date, listReq,
                   items, idx, deleted_count, calls, log>>

----------------------------------------------------------------------------
(* delete_tags *)

delete_tags_start ==
    /\ op = "tags" /\ pc = "start"
    /\ page' = 1
    /\ deleted_count' = 0
    /\ pc' = "fetch"
    /\ UNCHANGED <<args, cut, op, listResp, exit, exec, honoursBody, coll, limit, cutoff_date,
                   listReq, items, idx, calls, log>>

\* Lines 117-125: the listing goes through the executor, params as json=.
delete_tags_fetch ==
    /\ op = "tags" /\ pc = "fetch" /\ page <= MaxPage
    /\ \E resps \in RespSeqs :
        LET req == [method |-> "GET", query |-> NoParams,
                    json |-> [state |-> "", per_page |-> per_page, page |-> page]]
            r == make_request_with_retries("GET", resps, MAX_RETRIES)
            tags == ServerListing(coll, req)
        IN  /\ listReq' = req
            /\ listResp' = r.response.status
            /\ IF r.raised # ""
               THEN pc' = "done" /\ exit' = "raised" /\ UNCHANGED <<items, idx>>
               ELSE IF ListingFailed(r.response.status)
               THEN pc' = "done" /\ exit' = "list_failed" /\ UNCHANGED <<items, idx>>
               ELSE IF tags = <<>>
               THEN pc' = "done" /\ exit' = "empty" /\ items' = tags /\ idx' = 1
               ELSE pc' = "loop" /\ exit' = exit /\ items' = tags /\ idx' = 1
    /\ UNCHANGED <<args, cut, op, exec, honoursBody, coll, limit, cutoff_date, page,
                   deleted_count, calls, log>>

\* Lines 127-138: one tag of the page.
delete_tags_item ==
    /\ op = "tags" /\ pc = "loop" /\ idx <= Len(items)
    /\ \E resps \in RespSeqs :
        LET tag == items[idx]
            r == make_request_with_retries("DELETE", resps, MAX_RETRIES)
        IN  IF r.raised # ""
            THEN /\ pc' = "done" /\ exit' = "raised"
                 /\ UNCHANGED <<coll, deleted_count, idx, calls, log>>
            ELSE /\ calls' = Bump(calls)
                 /\ log' = log \cup {[item |-> tag, ok |-> Accepted(r.response.status, 204)]}
                 /\ coll' = IF r.response.status = 204 THEN Remove(coll, tag) ELSE coll
                 /\ IF Accepted(r.response.status, 204)
                    THEN /\ deleted_count' = deleted_count + 1
                         /\ IF LimitReached(limit, deleted_count')
                            THEN pc' = "done" /\ exit' = "limit" /\ idx' = idx
                            ELSE pc' = pc /\ exit' = exit /\ idx' = idx + 1
                    ELSE /\ idx' = idx + 1
                         /\ UNCHANGED <<deleted_count, pc, exit>>
    /\ UNCHANGED <<args, cut, op, listResp, exec, honoursBody, limit,
                   cutoff_date, page, listReq, items>>

\* Line 140: after the last tag of the page.
delete_tags_next ==
    /\ op = "tags" /\ pc = "loop" /\ idx > Len(items)
    /\ page' = NextPage(page)
    /\ pc' = "fetch"
    /\ UNCHANGED <<args, cut, op, listResp, exit, exec, honoursBody, coll, limit, cutoff_date,
                   listReq, items, idx, deleted_count, calls, log>>

----------------------------------------------------------------------------
(* delete_branches *)

\* branch_name not in EXCLUDED_BRANCHES
IsExcludedMainOnly(branch_name) == branch_name = "main"
IsExcluded(branch_name) == branch_name \in EXCLUDED_BRANCHES

delete_branches_start ==
    /\ op = "branches" /\ pc = "start"
    /\ page' = 1
    /\ deleted_count' = 0
    /\ pc' = "fetch"
    /\ UNCHANGED <<args, cut, op, listResp, exit, exec, honoursBody, coll, limit, cutoff_date,
                   listReq, items, idx, calls, log>>

\* Lines 151-159.
delete_branches_fetch ==
    /\ op = "branches" /\ pc = "fetch" /\ page <= MaxPage
    /\ \E resps \in RespSeqs :
        LET req == [method |-> "GET", query |-> NoParams,
                    json |-> [state |-> "", per_page |-> per_page, page |-> page]]
            r == make_request_with_retries("GET", resps, MAX_RETRIES)
            branches == ServerListing(coll, req)
        IN  /\ listReq' = req
            /\ listResp' = r.response.status
            /\ IF r.raised # ""
               THEN pc' = "done" /\ exit' = "raised" /\ UNCHANGED <<items, idx>>
               ELSE IF ListingFailed(r.response.status)
               THEN pc' = "done" /\ exit' = "list_failed" /\ UNCHANGED <<items, idx>>
               ELSE IF branches = <<>>
               THEN pc' = "done" /\ exit' = "empty" /\ items' = branches /\ idx' = 1
               ELSE pc' = "loop" /\ exit' = exit /\ items' = branches /\ idx' = 1
    /\ UNCHANGED <<args, cut, op, exec, honoursBody, coll, limit, cutoff_date, page,
                   deleted_count, calls, log>>

\* Lines 161-173: one branch of the page.
delete_branches_item ==
    /\ op = "branches" /\ pc = "loop" /\ idx <= Len(items)
    /\ LET branch == items[idx] IN
       IF ~IsExcluded(branch.name)
       THEN \E resps \in RespSeqs :
            LET r == make_request_with_retries("DELETE", resps, MAX_RETRIES) IN
            IF r.raised # ""
            THEN /\ pc' = "done" /\ exit' = "raised"
                 /\ UNCHANGED <<coll, deleted_count, idx, calls, log>>
            ELSE /\ calls' = Bump(calls)
                 /\ log' = log \cup {[item |-> branch, ok |-> Accepted(r.response.status, 204)]}
                 /\ coll' = IF r.response.status = 204 THEN Remove(coll, branch) ELSE coll
                 /\ IF Accepted(r.response.status, 204)
                    THEN /\ deleted_count' = deleted_count + 1
                         /\ IF LimitReached(limit, deleted_count')
                            THEN pc' = "done" /\ exit' = "limit" /\ idx' = idx
                            ELSE pc' = pc /\ exit' = exit /\ idx' = idx + 1
                    ELSE /\ idx' = idx + 1
                         /\ UNCHANGED <<deleted_count, pc, exit>>
       ELSE /\ idx' = idx + 1
            /\ UNCHANGED <<coll, deleted_count, pc, exit, calls, log>>
    /\ UNCHANGED <<args, cut, op, listResp, exec, honoursBody, limit,
                   cutoff_date, page, listReq, items>>

\* Line 175: after the last branch of the page.
delete_branches_next ==
    /\ op = "branches" /\ pc = "loop" /\ idx > Len(items)
    /\ page' = NextPage(page)
    /\ pc' = "fetch"
    /\ UNCHANGED <<args, cut, op, listResp, exit, exec, honoursBody, coll, limit, cutoff_date,
                   listReq, items, idx, deleted_count, calls, log>>

----------------------------------------------------------------------------
(* close_issues *)

\* Line 183 builds params = {"state": "open", "per_page": 50, "page": 1}.
close_issues_start ==
    /\ op = "issues" /\ pc = "start"
    /\ page' = 1
    /\ deleted_count' = 0
    /\ pc' = "fetch"
    /\ UNCHANGED <<args, cut, op, listResp, exit, exec, honoursBody, coll, limit, cutoff_date,
                   listReq, items, idx, calls, log>>

\* Lines 186-194: the listing call passes url, "GET" and headers only; params
\* is sent neither as a query string nor as a body.
close_issues_fetch ==
    /\ op = "issues" /\ pc = "fetch" /\ page <= MaxPage
    /\ \E resps \in RespSeqs :
        LET req == [method |-> "GET", query |-> NoParams, json |-> NoParams]
            r == make_request_with_retries("GET", resps, MAX_RETRIES)
            issues == ServerListing(coll, req)
        IN  /\ listReq' = req
            /\ listResp' = r.response.status
            /\ IF r.raised # ""
               THEN pc' = "done" /\ exit' = "raised" /\ UNCHANGED <<items, idx>>
               ELSE IF ListingFailed(r.response.status)
               THEN pc' = "done" /\ exit' = "list_failed" /\ UNCHANGED <<items, idx>>
               ELSE IF issues = <<>>
               THEN pc' = "done" /\ exit' = "empty" /\ items' = issues /\ idx' = 1
               ELSE pc' = "loop" /\ exit' = exit /\ items' = issues /\ idx' = 1
    /\ UNCHANGED <<args, cut, op, exec, honoursBody, coll, limit, cutoff_date, page,
                   deleted_count, calls, log>>

\* Lines 196-207: one issue of the page.
close_issues_item ==
    /\ op = "issues" /\ pc = "loop" /\ idx <= Len(items)
    /\ \E resps \in RespSeqs :
        LET issue == items[idx]
            r == make_request_with_retries("PATCH", resps, MAX_RETRIES)
        IN  IF r.raised # ""
            THEN /\ pc' = "done" /\ exit' = "raised"
                 /\ UNCHANGED <<coll, deleted_count, idx, calls, log>>
            ELSE /\ calls' = Bump(calls)
                 /\ log' = log \cup {[item |-> issue, ok |-> Accepted(r.response.status, 200)]}
                 /\ coll' = IF r.response.status = 200 THEN Close(coll, issue) ELSE coll
                 /\ IF Accepted(r.response.status, 200)
                    THEN /\ deleted_count' = deleted_count + 1
                         /\ IF LimitReached(limit, deleted_count')
                            THEN pc' = "done" /\ exit' = "limit" /\ idx' = idx
                            ELSE pc' = pc /\ exit' = exit /\ idx' = idx + 1
                    ELSE /\ idx' = idx + 1
                         /\ UNCHANGED <<deleted_count, pc, exit>>
    /\ UNCHANGED <<args, cut, op, listResp, exec, honoursBody, limit,
                   cutoff_date, page, listReq, items>>

\* Line 209: after the last issue of the page.
close_issues_next ==
    /\ op = "issues" /\ pc = "loop" /\ idx > Len(items)
    /\ page' = NextPage(page)
    /\ pc' = "fetch"
    /\ UNCHANGED <<args, cut, op, listResp, exit, exec, honoursBody, coll, limit, cutoff_date,
                   listReq, items, idx, deleted_count, calls, log>>

----------------------------------------------------------------------------
(* change_visibility_single, change_visibility_all *)

Visibility == "private"

\* The outcome of change_visibility_single for one repository: the status it
\* reports on and whether an exception leaves the function.
change_visibility_single_raising(repo, resps) ==
    LET r == make_request_with_retries("PATCH", resps, MAX_RETRIES)
    IN  [status |-> r.response.status,
         raised |-> r.raised # "" \/ r.response.status # 200]
change_visibility_single(repo, resps) ==
    LET r == make_request_with_retries("PATCH", resps, MAX_RETRIES)
    IN  [status |-> r.response.status, raised |-> r.raised # ""]

\* The collection after the server changed the visibility of repo.
SetVisibility(c, repo, v) ==
    [k \in 1..Len(c) |-> IF c[k] = repo THEN [c[k] EXCEPT !.visibility = v] ELSE c[k]]

\* Lines 228-236: one listing request, no paging parameters.
change_visibility_all_fetch ==
    /\ op = "visibility_all" /\ pc = "start"
    /\ \E resps \in RespSeqs :
        LET req == [method |-> "GET", query |-> NoParams, json |-> NoParams]
            r == make_request_with_retries("GET", resps, MAX_RETRIES)
            repos == ServerListing(coll, req)
        IN  /\ listReq' = req
            /\ listResp' = r.response.status
            /\ IF r.raised # ""
               THEN pc' = "done" /\ exit' = "raised" /\ UNCHANGED <<items, idx>>
               ELSE IF ListingFailed(r.response.status)
               THEN pc' = "done" /\ exit' = "list_failed" /\ UNCHANGED <<items, idx>>
               ELSE pc' = "loop" /\ exit' = exit /\ items' = repos /\ idx' = 1
    /\ UNCHANGED <<args, cut, op, exec, honoursBody, coll, limit, cutoff_date, page,
                   deleted_count, calls, log>>

\* Lines 237-240: one repository of the listing.
change_visibility_all_item ==
    /\ op = "visibility_all" /\ pc = "loop" /\ idx <= Len(items)
    /\ \E resps \in RespSeqs :
        LET repo == items[idx]
            out == change_visibility_single(repo, resps)
        IN  /\ calls' = Bump(calls)
            /\ log' = log \cup {[item |-> repo, ok |-> out.status = 200]}
            /\ coll' = IF out.status = 200
                       THEN SetVisibility(coll, repo, Visibility) ELSE coll
            /\ IF out.raised
               THEN pc' = "done" /\ exit' = "raised" /\ idx' = idx
               ELSE pc' = pc /\ exit' = exit /\ idx' = idx + 1
    /\ UNCHANGED <<args, cut, op, listResp, exec, honoursBody, limit, cutoff_date, page, listReq,
                   items, deleted_count>>

\* The for loop is over.
change_visibility_all_end ==
    /\ op = "visibility_all" /\ pc = "loop" /\ idx > Len(items)
    /\ pc' = "done" /\ exit' = "end"
    /\ UNCHANGED <<args, cut, op, listResp, exec, honoursBody, coll, limit, cutoff_date, page,
                   listReq, items, idx, deleted_count, calls, log>>

\* Lines 214-224 called from main: one repository, the one named by --repo
\* (the first of the organization, or one that does not exist).
NoRepo == [name |-> 0, visibility |-> "public"]
Target(c) == IF c # <<>> THEN c[1] ELSE NoRepo

change_visibility_single_run ==
    /\ op = "visibility_single" /\ pc = "start"
    /\ \E resps \in RespSeqs :
        LET repo == Target(coll)
            out == change_visibility_single(repo, resps)
        IN  /\ calls' = Bump(calls)
            /\ log' = log \cup {[item |-> repo, ok |-> out.status = 200]}
            /\ coll' = IF out.status = 200
                       THEN SetVisibility(coll, repo, Visibility) ELSE coll
            /\ pc' = "done"
            /\ exit' = IF out.raised THEN "raised" ELSE "end"
    /\ UNCHANGED <<args, cut, op, exec, honoursBody, limit, cutoff_date, page,
                   listReq, listResp, items, idx, deleted_count>>

\* The collection after the server renamed repo (the new name is name 0).
SetName(c, repo) ==
    [k \in 1..Len(c) |-> IF c[k] = repo THEN [c[k] EXCEPT !.name = 0] ELSE c[k]]

\* Lines 242-252.
change_repository_name ==
    /\ op = "rename" /\ pc = "start"
    /\ \E resps \in RespSeqs :
        LET repo == Target(coll)
            r == make_request_with_retries("PATCH", resps, MAX_RETRIES)
        IN  /\ calls' = Bump(calls)
            /\ log' = log \cup {[item |-> repo, ok |-> r.response.status = 200]}
            /\ coll' = IF r.response.status = 200 THEN SetName(coll, repo) ELSE coll
            /\ pc' = "done"
            /\ exit' = IF r.raised # "" THEN "raised" ELSE "end"
    /\ UNCHANGED <<args, cut, op, exec, honoursBody, limit, cutoff_date, page,
                   listReq, listResp, items, idx, deleted_count>>

----------------------------------------------------------------------------
(* main *)

\* The parsed arguments. For the flags of `change`, TRUE is a value that is
\* given and not empty (what `if args.repo` tests).
NoArgs ==
    [command |-> "", type |-> "", time_frame |-> NoTimeFrame, repo |-> FALSE,
     all_repos |-> FALSE, visibility |-> FALSE, change_name |-> FALSE]

CleanupTypes == {"releases", "tags", "branches", "issues"}

\* Lines 279-289: the function `cleanup` runs, or "no_type" for the message.
main_cleanup(a) ==
    IF a.type \in CleanupTypes THEN a.type ELSE "no_type"

\* Lines 291-308: the function `change` runs, or "usage" for an error message.
main_change_bulk_first(a) ==
    IF a.all_repos
    THEN (IF a.visibility THEN "visibility_all" ELSE "usage")
    ELSE IF a.change_name
    THEN (IF ~a.repo THEN "usage" ELSE "rename")
    ELSE IF a.repo
    THEN (IF a.visibility THEN "visibility_single" ELSE "usage")
    ELSE "usage"
main_change_unchecked(a) ==
    IF a.change_name THEN "rename"
    ELSE IF a.all_repos THEN "visibility_all"
    ELSE IF a.repo THEN "visibility_single"
    ELSE "usage"
main_change(a) ==
    IF a.change_name
    THEN (IF ~a.repo THEN "usage" ELSE "rename")
    ELSE IF a.all_repos
    THEN (IF a.visibility THEN "visibility_all" ELSE "usage")
    ELSE IF a.repo
    THEN (IF a.visibility THEN "visibility_single" ELSE "usage")
    ELSE "usage"

main ==
    /\ op = "main" /\ pc = "start"
    /\ LET target == IF args.command = "cleanup"
                     THEN main_cleanup(args) ELSE main_change(args)
       IN  IF target \in {"usage", "no_type"}
           THEN op' = op /\ pc' = "done" /\ exit' = target
           ELSE op' = target /\ pc' = "start" /\ exit' = exit
    /\ UNCHANGED <<args, cut, exec, honoursBody, coll, limit, cutoff_date, page,
                   listReq, listResp, items, idx, deleted_count, calls, log>>

----------------------------------------------------------------------------
(* Initial states *)

SeqsUpTo(S, n) == UNION {[1..k -> S] : k \in 0..n}

ReleaseColls ==
    {[i \in 1..Len(ts) |-> [id |-> i, created_at |-> ts[i]]] : ts \in SeqsUpTo(Times, MaxReleases)}
TagColls == {[i \in 1..n |-> [ref |-> i]] : n \in 0..MaxTags}
BranchNames == {"main", "master", "dev", "fix"}
BranchColls ==
    {[i \in 1..Len(ns) |-> [name |-> ns[i]]] :
        ns \in {q \in SeqsUpTo(BranchNames, MaxBranches) :
                  \A i, j \in 1..Len(q) : i # j => q[i] # q[j]}}
IssueColls ==
    {[i \in 1..Len(ss) |-> [number |-> i, state |-> ss[i]]] :
        ss \in SeqsUpTo({"open", "closed"}, MaxIssues)}
RepoColls == {[i \in 1..n |-> [name |-> i, visibility |-> "public"]] : n \in 0..MaxRepos}

\* The --time-frame-gt values release cleanup is run with: left out, one
\* well-formed value ("1d"), and malformed ones ("1x", "abcd", "").
ReleaseTimeFrames ==
    {NoTimeFrame,
     [prefix |-> "int", n |-> 1, last |-> "d"],
     [prefix |-> "int", n |-> 1, last |-> "x"],
     [prefix |-> "text", n |-> 0, last |-> "d"],
     [prefix |-> "empty", n |-> 0, last |-> ""]}

CleanupArgs(type, tf) == [NoArgs EXCEPT !.command = "cleanup", !.type = type,
                                        !.time_frame = tf, !.repo = TRUE]
ChangeArgs ==
    {[NoArgs EXCEPT !.command = "change", !.repo = f[1], !.all_repos = f[2],
                    !.visibility = f[3], !.change_name = f[4]] : f \in [1..4 -> BOOLEAN]}

InitCommon ==
    /\ pc = "start" /\ exit = ""
    /\ cutoff_date = 0 /\ page = 0 /\ listReq = NoRequest /\ listResp = 0
    /\ items = <<>> /\ idx = 0 /\ deleted_count = 0 /\ calls = 0 /\ log = {}

InitExec ==
    /\ op = "exec"
    /\ exec \in [method : CallMethods, resps : RespSeqs, retries : CallRetries,
                 result : {ExecStart}]
    /\ args = NoArgs /\ cut = NoCut
    /\ honoursBody = FALSE /\ coll = <<>> /\ limit = <<>>

InitCutoff ==
    /\ op = "cutoff"
    /\ cut \in [now : Nows, time_frame : TimeFrames \cup {NoTimeFrame},
                result : {NoCut.result}]
    /\ args = NoArgs /\ exec = NoCall
    /\ honoursBody = FALSE /\ coll = <<>> /\ limit = <<>>

InitCleanup ==
    /\ op = "main"
    /\ exec = NoCall /\ cut = NoCut
    /\ \/ /\ limit \in Limits
          /\ \/ /\ \E tf \in ReleaseTimeFrames : args = CleanupArgs("releases", tf)
                /\ coll \in ReleaseColls /\ honoursBody = FALSE
             \/ /\ args = CleanupArgs("tags", NoTimeFrame)
                /\ coll \in TagColls /\ honoursBody \in BOOLEAN
             \/ /\ args = CleanupArgs("branches", NoTimeFrame)
                /\ coll \in BranchColls /\ honoursBody \in BOOLEAN
             \/ /\ args = CleanupArgs("issues", NoTimeFrame)
                /\ coll \in IssueColls /\ honoursBody = FALSE
       \/ /\ args = CleanupArgs("", NoTimeFrame)
          /\ limit = <<>> /\ coll = <<>> /\ honoursBody = FALSE

InitChange ==
    /\ op = "main"
    /\ exec = NoCall /\ cut = NoCut
    /\ args \in ChangeArgs
    /\ coll \in RepoColls
    /\ honoursBody = FALSE /\ limit = <<>>

Init == InitCommon /\ (InitExec \/ InitCutoff \/ InitCleanup \/ InitChange)

Next ==
    \/ exec_call
    \/ cutoff_call
    \/ main
    \/ delete_releases_start \/ delete_releases_fetch
    \/ delete_releases_item \/ delete_releases_next
    \/ delete_tags_start \/ delete_tags_fetch
    \/ delete_tags_item \/ delete_tags_next
    \/ delete_branches_start \/ delete_branches_fetch
    \/ delete_branches_item \/ delete_branches_next
    \/ close_issues_start \/ close_issues_fetch
    \/ close_issues_item \/ close_issues_next
    \/ change_visibility_all_fetch \/ change_visibility_all_item
    \/ change_visibility_all_end
    \/ change_visibility_single_run
    \/ change_repository_name

Spec == Init /\ [][Next]_vars

\* Every request is answered and the program goes on with the answer: a step
\* that can be taken is taken.
FairSpec == Spec /\ WF_vars(Next)

----------------------------------------------------------------------------
(* Properties *)

CleanupOps == {"releases", "tags", "branches", "issues"}
Range(q) == {q[k] : k \in 1..Len(q)}

\* A direct call with a supported method has ended.
ExecDone == op = "exec" /\ pc = "done" /\ exec.method \in {"GET", "DELETE", "PATCH"}

\* Among the first n answers of the server: the 403s, the other failures,
\* the successes.
Num403(resps, n) == Cardinality({i \in 1..n : resps[i] = 403})
NumFail(resps, n) == Cardinality({i \in 1..n : resps[i] \notin {200, 204, 403}})
Successes(resps, n) == {i \in 1..n : resps[i] \in {200, 204}}

\* The call ended without having received a 200 or 204.
GaveUp == ExecDone /\ exec.result.response.status \notin {200, 204}

\* C1, as stated: a 403 does not use up the retry budget, so a call that
\* gives up has seen `retries` failures other than 403, however many 403
\* responses it received.
C1_BudgetUntouchedBy403 ==
    GaveUp => NumFail(exec.resps, exec.result.requests) = exec.retries

\* C1, amended: a 403 is followed by the 60 s cooldown and, while attempts
\* remain, by a retry, and it uses up one attempt like any other failure: a
\* call that gives up has seen k 403s and retries - k other failures, and no
\* call sends more than `retries` requests.
C1_403ConsumesAttempt ==
    ExecDone =>
        LET n == exec.result.requests
            k == Num403(exec.resps, n)
            f == NumFail(exec.resps, n)
        IN  /\ n <= exec.retries
            /\ exec.result.slept = 60 * k + 2 * f
            /\ GaveUp => k + f = exec.retries
            /\ \A i \in 1..exec.retries - 1 :
                 (i <= n /\ exec.resps[i] = 403) => n > i

C1_Witness ==
    /\ GaveUp /\ exec.retries = 3
    /\ Num403(exec.resps, 3) = 2 /\ NumFail(exec.resps, 3) = 1

\* C2: a call with a supported method returns the first 200/204 response
\* and sends nothing after it; without one among the first `retries` answers
\* it sends `retries` requests, each failure other than 403 using up one
\* attempt, and returns the last response as received; it never raises.
C2_FirstSuccessOrLastResponse ==
    ExecDone =>
        LET ok == Successes(exec.resps, exec.retries)
            res == exec.result
        IN  /\ res.raised = "" /\ res.returned
            /\ res.failures = NumFail(exec.resps, res.requests)
            /\ IF ok # {}
               THEN LET first == CHOOSE i \in ok : \A j \in ok : i <= j
                    IN  /\ res.requests = first
                        /\ res.response = [status |-> exec.resps[first], n |-> first]
               ELSE /\ res.requests = exec.retries
                    /\ res.attempt = exec.retries
                    /\ res.response =
                         [status |-> exec.resps[exec.retries], n |-> exec.retries]

C2_Witness ==
    /\ ExecDone /\ exec.retries = 3
    /\ exec.resps[1] = 500 /\ exec.resps[2] = 204 /\ exec.resps[3] = 200
    /\ exec.result.response = [status |-> 204, n |-> 2]

\* C3: delete_releases sends a delete request only for a release created
\* strictly before the cutoff, and every release created at or after the
\* cutoff stays in the repository.
C3_NoDeleteAtOrAfterCutoff ==
    [][op = "releases" =>
         /\ \A e \in log' \ log : e.item.created_at < cutoff_date'
         /\ \A r \in Range(coll) : r.created_at >= cutoff_date' => r \in Range(coll')]_vars

C3_Witness ==
    /\ op = "releases" /\ pc = "done" /\ exit = "short"
    /\ \E e \in log : e.ok
    /\ \E r \in Range(coll) : r.created_at = cutoff_date
    /\ \E r \in Range(coll) : r.created_at > cutoff_date

\* C4, as stated: when delete_releases ran without a limit and every listing
\* and every delete succeeded, no release older than the cutoff is left.
C4_AllOlderReleasesDeleted ==
    (/\ op = "releases" /\ pc = "done" /\ limit = <<>>
     /\ exit \in {"empty", "short"}
     /\ \A e \in log : e.ok)
    => \A r \in Range(coll) : r.created_at >= cutoff_date

\* C5, as stated: with a limit of 0 or more, the count of successful
\* deletions or closures never exceeds the limit, and the operation has
\* ended once a success has brought the count to the limit.
C5_CountWithinLimit ==
    (op \in CleanupOps /\ limit # <<>> /\ limit[1] >= 0)
    => /\ deleted_count <= limit[1]
       /\ (deleted_count > 0 /\ deleted_count >= limit[1]) => pc = "done"

\* C6: delete_branches sends no delete request for "main" or "master";
\* they stay in the repository, and passing over one changes neither the
\* count nor the number of calls.
C6_MainMasterNeverDeleted ==
    [][op = "branches" =>
         /\ \A e \in log' : e.item.name \notin {"main", "master"}
         /\ \A b \in Range(coll) : b.name \in {"main", "master"} => b \in Range(coll')
         /\ (pc = "loop" /\ idx <= Len(items) /\ items[idx].name \in {"main", "master"})
              => /\ deleted_count' = deleted_count /\ calls' = calls
                 /\ pc' = "loop" /\ idx' = idx + 1]_vars

C6_Witness ==
    /\ op = "branches" /\ exit = "limit" /\ deleted_count = 1
    /\ idx = 2 /\ items[1].name \in {"main", "master"}
    /\ \E b \in Range(coll) : b.name = "main"
    /\ \E b \in Range(coll) : b.name = "master"

\* C7, as stated: in each of the four cleanup operations a further page is
\* requested only after a full page.
C7_NextPageOnlyAfterFullPage ==
    (op \in CleanupOps /\ pc = "fetch" /\ page > 1) => Len(items) = per_page

\* Where the operation stands after a page, by the page it received.
C7_States ==
    /\ op = "releases" =>
         /\ (pc = "fetch" /\ page > 1) => Len(items) = per_page
         /\ exit = "short" => (0 < Len(items) /\ Len(items) < per_page)
         /\ exit = "empty" => items = <<>>
    /\ op \in {"tags", "branches", "issues"} =>
         /\ (pc = "fetch" /\ page > 1) => Len(items) >= 1
         /\ exit \in {"", "empty", "limit", "list_failed"}
         /\ exit = "empty" => items = <<>>

\* What the operation does when the for loop over a page is over.
C7_Steps ==
    (op \in CleanupOps /\ pc = "loop" /\ idx > Len(items)) =>
        IF op = "releases" /\ Len(items) < per_page
        THEN pc' = "done" /\ listReq' = listReq
        ELSE pc' = "fetch" /\ page' = (IF page < MaxPage THEN page + 1 ELSE page)

\* C7, amended: delete_releases stops listing exactly when a page is short
\* or empty; delete_tags, delete_branches and close_issues stop listing only
\* when a page is empty: after any page with an item, short or full, they
\* raise the page number and send another listing request (unless the limit
\* was reached).
C7_StopOnShortOnlyForReleases == []C7_States /\ [][C7_Steps]_vars

C7_Witness ==
    /\ op = "tags" /\ pc = "done" /\ exit = "empty" /\ page = 2
    /\ coll = <<>> /\ calls = 1 /\ deleted_count = 1

\* C8, as stated: when delete_tags ran without a limit and every listing
\* and every delete succeeded, no tag is left.
C8_AllTagsDeleted ==
    (/\ op = "tags" /\ pc = "done" /\ limit = <<>>
     /\ exit = "empty"
     /\ \A e \in log : e.ok)
    => coll = <<>>

\* C9, as stated: every listing request of close_issues carries the query
\* parameters state=open, per_page and the current page number.
C9_ListingCarriesOpenFilter ==
    (op = "issues" /\ listReq # NoRequest)
    => listReq.query = [state |-> "open", per_page |-> per_page, page |-> page]

\* C10: change_visibility_all sends one PATCH for each repository of the
\* listing, in the order of the listing, whatever the outcome of the
\* PATCHes before; it patches no repository outside the listing and reports
\* each outcome for its own repository.
C10_EveryListedRepoPatched ==
    (op = "visibility_all" /\ pc \in {"loop", "done"} /\ exit # "list_failed")
    => /\ {e.item : e \in log} = {items[j] : j \in 1..(idx - 1)}
       /\ Cardinality(log) = idx - 1
       /\ calls = idx - 1
       /\ pc = "done" => (exit = "end" /\ idx = Len(items) + 1)
       /\ \A r \in Range(coll) :
            r.visibility = "private" <=>
                \E e \in log : e.ok /\ e.item.name = r.name
       /\ \A e \in log : \E j \in 1..Len(items) : items[j] = e.item

C10_Witness ==
    /\ op = "visibility_all" /\ pc = "done" /\ exit = "end"
    /\ Len(items) >= 2 /\ Len(coll) > Len(items)
    /\ [item |-> items[1], ok |-> FALSE] \in log
    /\ [item |-> items[2], ok |-> TRUE] \in log

\* The `change` command line is one the front end rejects, read in the order
\* in which main looks at the flags.
InvalidChange ==
    /\ args.command = "change"
    /\ \/ args.change_name /\ ~args.repo
       \/ ~args.change_name /\ args.all_repos /\ ~args.visibility
       \/ ~args.change_name /\ ~args.all_repos /\ args.repo /\ ~args.visibility
       \/ ~args.change_name /\ ~args.all_repos /\ ~args.repo

\* C11: an invalid flag combination of `change` never leaves main: it ends
\* with the usage message and no listing or PATCH request has been sent.
C11_InvalidChangeSendsNothing ==
    InvalidChange =>
        /\ op = "main" /\ pc \in {"start", "done"}
        /\ pc = "done" => exit = "usage"
        /\ listReq = NoRequest /\ listResp = 0 /\ calls = 0 /\ log = {}

C11_Witness ==
    /\ args.command = "change" /\ pc = "done" /\ exit = "usage"
    /\ args.change_name /\ ~args.repo /\ args.all_repos /\ args.visibility

\* C12: `change` runs at most one function, chosen in the order rename, bulk
\* visibility, single visibility: with a new name only the rename runs and
\* no visibility is changed; with --all-repos and no new name only the bulk
\* change runs, also when --repo is given.
C12_RenameThenBulkThenSingle ==
    args.command = "change" =>
        /\ args.change_name =>
             /\ op \in {"main", "rename"}
             /\ \A r \in Range(coll) : r.visibility = "public"
        /\ (~args.change_name /\ args.all_repos) => op \in {"main", "visibility_all"}
        /\ (~args.change_name /\ ~args.all_repos) => op \in {"main", "visibility_single"}
        /\ op \in {"rename", "visibility_single"} =>
             (listReq = NoRequest /\ calls <= 1)
        /\ (pc = "done" /\ ~InvalidChange) =>
             (op # "main" /\ exit \in {"end", "list_failed"})

C12_Witness ==
    /\ op = "rename" /\ pc = "done"
    /\ args.all_repos /\ args.visibility /\ args.repo
    /\ \E e \in log : e.ok
    /\ \E r \in Range(coll) : r.name = 0

\* C13, as stated: a run of the program never ends through an exception.
C13_NoUncaughtException ==
    args.command # "" => exit \notin {"raised", "cutoff_raised"}

\* The calendar: days of a month, hours from 1 January 2000 to a time.
MonthLengths == <<31, 28, 31, 30, 31, 30, 31, 31, 30, 31, 30, 31>>
CalDaysIn(y, m) ==
    IF m = 2 /\ y % 4 = 0 /\ (y % 100 # 0 \/ y % 400 = 0) THEN 29 ELSE MonthLengths[m]
RECURSIVE DaysBeforeMonth(_, _)
DaysBeforeMonth(y, m) ==
    IF m = 1 THEN 0 ELSE DaysBeforeMonth(y, m - 1) + CalDaysIn(y, m - 1)
RECURSIVE DaysBeforeYear(_)
DaysBeforeYear(y) ==
    IF y <= 2000 THEN 0 ELSE DaysBeforeYear(y - 1) + DaysBeforeMonth(y - 1, 12) + 31
HourNumber(dt) ==
    (DaysBeforeYear(dt.year) + DaysBeforeMonth(dt.year, dt.month) + dt.day - 1) * 24 + dt.hour
MonthNumber(dt) == dt.year * 12 + dt.month

\* C14: for <int>h and <int>d calculate_cutoff_date returns the time that
\* many hours or days before now; for <int>m the same time of day that many
\* calendar months back, on the same day of the month or, where that month is
\* shorter, on its last day; any other string raises ValueError; and
\* delete_releases lets that exception out before it has sent a request.
C14_CutoffIsNowMinusAmount ==
    /\ (op = "cutoff" /\ pc = "done") =>
         LET tf == cut.time_frame
             now == cut.now
             res == cut.result
             v == res.value
         IN  IF tf.prefix = "int" /\ tf.last \in {"m", "d", "h"}
             THEN /\ res.raised = ""
                  /\ v.day \in 1..CalDaysIn(v.year, v.month)
                  /\ tf.last = "h" => HourNumber(v) = HourNumber(now) - tf.n
                  /\ tf.last = "d" => HourNumber(v) = HourNumber(now) - 24 * tf.n
                  /\ tf.last = "m" =>
                       /\ MonthNumber(v) = MonthNumber(now) - tf.n
                       /\ v.hour = now.hour
                       /\ v.day = IF now.day <= CalDaysIn(v.year, v.month)
                                  THEN now.day ELSE CalDaysIn(v.year, v.month)
             ELSE tf.prefix # "none" => res.raised = "ValueError"
    /\ (op = "releases" /\ pc # "start"
        /\ ~(args.time_frame.prefix = "int" /\ args.time_frame.last \in {"m", "d", "h"}))
         => /\ pc = "done" /\ exit = "cutoff_raised"
            /\ listReq = NoRequest /\ listResp = 0 /\ calls = 0 /\ log = {}

C14_Witness ==
    /\ op = "cutoff" /\ pc = "done"
    /\ cut.now = [year |-> 2024, month |-> 3, day |-> 31, hour |-> 0]
    /\ cut.time_frame = [prefix |-> "int", n |-> 1, last |-> "m"]
    /\ cut.result.value = [year |-> 2024, month |-> 2, day |-> 29, hour |-> 0]

\* The operations that start with a listing.
ListingOps == CleanupOps \cup {"visibility_all"}

\* C15: once a listing request is answered with a status other than 200
\* (403 included), the operation is over: nothing has been requested after
\* that answer, and no step follows.
C15_FailedListingEndsOperation ==
    /\ [](op \in ListingOps =>
            /\ listResp \notin {0, 200} => (pc = "done" /\ exit = "list_failed")
            /\ exit = "list_failed" => (pc = "done" /\ listResp \notin {0, 200}))
    /\ [][/\ exit # "list_failed"
          /\ (op \in ListingOps /\ listResp' \notin {0, 200}) =>
                (calls' = calls /\ log' = log /\ coll' = coll /\ pc' = "done")]_vars

C15_Witness ==
    /\ op = "releases" /\ pc = "done" /\ exit = "list_failed"
    /\ listResp = 403 /\ page = 2 /\ calls = 2 /\ deleted_count = 1

\* The item the loop is at is one the operation mutates.
Eligible(item) ==
    CASE op = "releases" -> item.created_at < cutoff_date
      [] op = "branches" -> item.name \notin {"main", "master"}
      [] OTHER -> TRUE

\* C16: in a cleanup operation, a mutation that the server did not carry out
\* is logged as failed, leaves the counter where it was and moves the loop to
\* the next item of the page; every eligible item before the loop's position
\* has had its mutation attempted, and a page read to its end is followed by
\* the next listing or the normal end, never by an abort.
C16_FailedMutationGoesOn ==
    /\ [](op \in CleanupOps =>
            /\ pc = "loop" =>
                 \A j \in 1..(idx - 1) :
                     Eligible(items[j]) => \E e \in log : e.item = items[j]
            /\ pc = "done" =>
                 exit \in {"limit", "empty", "short", "list_failed", "cutoff_raised"})
    /\ [][(op \in CleanupOps /\ pc = "loop" /\ idx <= Len(items)
            /\ Eligible(items[idx]) /\ coll' = coll) =>
                /\ [item |-> items[idx], ok |-> FALSE] \in log'
                /\ deleted_count' = deleted_count
                /\ pc' = "loop" /\ idx' = idx + 1 /\ items' = items]_vars

C16_Witness ==
    /\ op = "tags" /\ pc = "done" /\ exit = "empty"
    /\ [item |-> [ref |-> 1], ok |-> FALSE] \in log
    /\ [item |-> [ref |-> 2], ok |-> TRUE] \in log
    /\ deleted_count >= 2 /\ page >= 2

\* C17, as stated, for close_issues: every run of the operation reaches its
\* end (the claim says so of all four cleanup operations).
C17_EveryOperationReturns == (op = "issues") ~> (pc = "done")

\* C18: a direct call sends at most `retries` requests and goes through at
\* most `retries` attempts whatever the answers; answered 403 every time it
\* sends exactly `retries` requests, sleeps 60 s after each and returns the
\* last 403.
C18_AtMostRetriesRequests ==
    (op = "exec" /\ pc = "done") =>
        LET res == exec.result IN
        /\ res.requests <= exec.retries
        /\ res.attempt <= exec.retries
        /\ exec.retries <= MAX_RETRIES
        /\ res.response.n = res.requests
        /\ (exec.method \in {"GET", "DELETE", "PATCH"}
            /\ \A i \in 1..exec.retries : exec.resps[i] = 403) =>
               /\ res.requests = exec.retries
               /\ res.slept = 60 * exec.retries
               /\ res.returned /\ res.response.status = 403

C18_Witness ==
    /\ op = "exec" /\ pc = "done" /\ exec.method = "DELETE" /\ exec.retries = 3
    /\ \A i \in 1..3 : exec.resps[i] = 403
    /\ exec.result.requests = 3 /\ exec.result.response = [status |-> 403, n |-> 3]

\* The mutations of the run that were counted.
Counted == {e \in log : e.ok}

\* The server has carried out the mutation of item.
Mutated(item) ==
    IF op = "issues"
    THEN \A i \in Range(coll) : i.number = item.number => i.state = "closed"
    ELSE item \notin Range(coll)

\* A step of a cleanup operation moves the counter up by one or not at all,
\* and up only with a mutation the server carried out.
C19_Step ==
    op \in CleanupOps =>
        /\ deleted_count' \in {deleted_count, deleted_count + 1}
        /\ (deleted_count' = deleted_count + 1) =>
              (coll' # coll /\ calls' >= calls /\ log' # log)

C20_UnsupportedMethodFailsFast ==
    /\ (op = "exec" /\ pc = "done" /\ exec.method \notin {"GET", "DELETE", "PATCH"}) =>
          /\ exec.result.raised = "ValueError" /\ ~exec.result.returned
          /\ exec.result.requests = 0 /\ exec.result.slept = 0
          /\ exec.result.attempt = 0 /\ exec.result.failures = 0
          /\ exec.result.response = NoResponse
    /\ args.command # "" => exit # "raised"

C20_Witness ==
    /\ op = "exec" /\ pc = "done" /\ exec.method = "POST" /\ exec.retries = 3
    /\ exec.result.raised = "ValueError" /\ exec.result.requests = 0

====
